---- MODULE Spec2Model ----
(***************************************************************************)
(* Model of src/app.py: the Flask handler GET /search and the helpers it   *)
(* calls (normalize_number, ddg_search_html, fetch_meta_image_and_title,   *)
(* extract_name_from_text).                                                *)
(*                                                                         *)
(* Python strings on which the code runs a regular expression are          *)
(* sequences of one-character strings; other strings (hrefs, messages)     *)
(* are sequences of string segments.  Python's None is the empty sequence  *)
(* and a present value v is <<v>>.                                         *)
(*                                                                         *)
(* The two patterns are modelled as they are written in the source: inside *)
(* a raw string literal r'\\D' is the regular expression "a backslash      *)
(* followed by the letter D", and r'...\\s...' asks for a backslash        *)
(* followed by the letter s between two words.  The quotes of the file's   *)
(* docstrings are escaped and line 81 carries a stray quote; the           *)
(* statements are modelled as they read without these.                     *)
(***************************************************************************)
EXTENDS Integers, Sequences, FiniteSets, TLC

VARIABLES
    fn, arg, ret,            \* a call of one of the pure helpers
    pc, raw, number,         \* the handler's position and its locals
    i, entry, res, k,        \* loop index, current entry, search results, hit
    results, status, body,   \* collected entries and the HTTP response
    log,                     \* outbound requests and sleeps of this request
    hist,                    \* outcome of each platform's fetches (history)
    served                   \* non-empty web responses served so far

vars == <<fn, arg, ret, pc, raw, number, i, entry, res, k, results, status,
          body, log, hist, served>>

handlerVars == <<pc, raw, number, i, entry, res, k, results, status, body,
                 log, hist, served>>

None == <<>>
Some(v) == <<v>>

Upper == {"A","B","C","D","E","F","G","H","I","J","K","L","M",
          "N","O","P","Q","R","S","T","U","V","W","X","Y","Z"}
Lower == {"a","b","c","d","e","f","g","h","i","j","k","l","m",
          "n","o","p","q","r","s","t","u","v","w","x","y","z"}
Digit == {"0","1","2","3","4","5","6","7","8","9"}

(***************************************************************************)
(* normalize_number                                                        *)
(***************************************************************************)
\* re.sub(r'\\D', '', raw): every non-overlapping occurrence, left to right,
\* of the two characters backslash, D is removed.
RECURSIVE re_sub_D(_)
re_sub_D(s) ==
    IF Len(s) = 0 THEN <<>>
    ELSE IF Len(s) >= 2 /\ s[1] = "\\" /\ s[2] = "D"
         THEN re_sub_D(SubSeq(s, 3, Len(s)))
         ELSE <<s[1]>> \o re_sub_D(Tail(s))

\* the digit characters of s, in their order
StripNonDigits(s) == SelectSeq(s, LAMBDA c : c \in Digit)

CountryCode == <<"9", "1">>

normalize_number(r) ==
    IF r = <<>> THEN <<>>
    ELSE LET digits == re_sub_D(r)
         IN  IF Len(digits) = 10 THEN CountryCode \o digits ELSE digits

(***************************************************************************)
(* NAME_RE and extract_name_from_text                                      *)
(***************************************************************************)
\* number of consecutive characters of [a-z] in t from position p on
RECURSIVE LowerRun(_, _)
LowerRun(t, p) ==
    IF p <= Len(t) /\ t[p] \in Lower THEN 1 + LowerRun(t, p + 1) ELSE 0

\* [A-Z][a-z]{2,} at position p: the position of its last character, or 0
WordEnd(t, p) ==
    IF p <= Len(t) /\ t[p] \in Upper /\ LowerRun(t, p + 1) >= 2
    THEN p + LowerRun(t, p + 1)
    ELSE 0

\* (?:\\s[A-Z][a-z]{2,}) at position p: a backslash, the letter s, a word
GroupEnd(t, p) ==
    IF p + 1 <= Len(t) /\ t[p] = "\\" /\ t[p + 1] = "s"
    THEN WordEnd(t, p + 2)
    ELSE 0

\* {0,3}: greedily up to n more groups after position e
RECURSIVE Groups(_, _, _)
Groups(t, e, n) ==
    IF n = 0 THEN e
    ELSE LET g == GroupEnd(t, e + 1)
         IN  IF g = 0 THEN e ELSE Groups(t, g, n - 1)

MaxGroups == 3

\* the end of the match of NAME_RE that starts at p, or 0
MatchAt(t, p) ==
    LET w == WordEnd(t, p) IN IF w = 0 THEN 0 ELSE Groups(t, w, MaxGroups)

\* NAME_RE.search(text).group(1): the leftmost match, or None
NAME_RE_search(t) ==
    LET starts == {p \in 1..Len(t) : MatchAt(t, p) # 0}
    IN  IF starts = {} THEN None
        ELSE LET p == CHOOSE q \in starts : \A o \in starts : q <= o
             IN  Some(SubSeq(t, p, MatchAt(t, p)))

extract_name_from_text(text) ==
    IF text = <<>> THEN None ELSE NAME_RE_search(text)

(***************************************************************************)
(* The web as the handler sees it: what one outbound request can return.   *)
(***************************************************************************)
T_JohnSmith  == <<"J","o","h","n"," ","S","m","i","t","h">>
T_MaryJones  == <<"M","a","r","y"," ","J","o","n","e","s">>
T_BobSingh   == <<"c","a","l","l"," ","B","o","b"," ","S","i","n","g","h">>
T_spam       == <<"s","p","a","m"," ","c","a","l","l">>
T_owner      == <<"o","w","n","e","r",":">>

\* an <a> element of the search page: href and text, and the text of its
\* parent without the title (lines 49-58)
A_John == [href |-> <<"https://a.example/john">>, title |-> T_JohnSmith, snippet |-> T_owner]
A_Mary == [href |-> <<"https://b.example/mary">>, title |-> T_MaryJones, snippet |-> <<>>]
A_Spam == [href |-> <<"https://c.example/spam">>, title |-> T_spam, snippet |-> <<>>]
A_NoHref == [href |-> <<>>, title |-> T_JohnSmith, snippet |-> <<>>]

\* the anchor lists of the search pages the web serves
SearchPages ==
    { <<>>, <<A_Spam>>, <<A_Spam, A_John, A_Mary>>, <<A_NoHref, A_Mary, A_John>> }

FailureKinds == {"neterr", "httperr", "exc"}

\* requests.post(...) + raise_for_status() + BeautifulSoup(...) of lines 41-45
SearchOutcomes ==
    [kind : {"ok"}, anchors : SearchPages]
    \cup [kind : FailureKinds, anchors : {<<>>}]

NoSearch == [kind |-> "none", anchors |-> <<>>]

\* the title, image and text that lines 72-81 read off a fetched page
BlankPage == [title |-> None, image |-> None, text |-> <<>>]
Pages ==
    { BlankPage,
      [title |-> Some(T_MaryJones), image |-> Some(<<"https://b.example/mary.jpg">>), text |-> T_spam],
      [title |-> Some(T_spam), image |-> None, text |-> T_BobSingh] }

\* requests.get(...) + raise_for_status() + the parse of lines 67-82
PageOutcomes ==
    { [kind |-> "ok", page |-> pg] : pg \in Pages }
    \cup [kind : FailureKinds, page : {BlankPage}]

NoPage == [kind |-> "none", page |-> BlankPage]

\* str(e) of the exception a failed request or a failed parse raises
ExcText(kind) ==
    CASE kind = "neterr"  -> "ConnectionError"
      [] kind = "httperr" -> "HTTPError"
      [] OTHER            -> "ParserRejectedMarkup"

(***************************************************************************)
(* ddg_search_html and fetch_meta_image_and_title                          *)
(***************************************************************************)
MaxDdgResults == 8

\* lines 48-62: anchors without href or title are skipped, at most 8 kept
ParseAnchors(anchors) ==
    LET kept == SelectSeq(anchors, LAMBDA a : a.href # <<>> /\ a.title # <<>>)
    IN  IF Len(kept) >= MaxDdgResults THEN SubSeq(kept, 1, MaxDdgResults) ELSE kept

\* what the call gives back: an error dict, a result list, or an exception
ddg_search_html(o) ==
    IF o.kind \in {"neterr", "httperr"}
    THEN [raised |-> FALSE, error |-> Some(<<"duckduckgo search failed: ", ExcText(o.kind)>>), list |-> <<>>]
    ELSE IF o.kind = "exc"
    THEN [raised |-> TRUE, error |-> None, list |-> <<>>]
    ELSE [raised |-> FALSE, error |-> None, list |-> ParseAnchors(o.anchors)]

fetch_meta_image_and_title(o) ==
    IF o.kind \in {"neterr", "httperr"}
    THEN [raised |-> FALSE, error |-> Some(<<"fetch failed: ", ExcText(o.kind)>>), meta |-> BlankPage]
    ELSE IF o.kind = "exc"
    THEN [raised |-> TRUE, error |-> None, meta |-> BlankPage]
    ELSE [raised |-> FALSE, error |-> None, meta |-> o.page]

(***************************************************************************)
(* search(): the platform list and the entry of one platform               *)
(***************************************************************************)
Quoted(n) == <<"\"">> \o n \o <<"\"">>

platforms(n) ==
    << [platform |-> "DuckDuckGo (exact)", type |-> "ddg", target |-> Quoted(n)],
       [platform |-> "PhonePe (DDG)", type |-> "ddg", target |-> Quoted(n) \o <<" PhonePe">>],
       [platform |-> "WhoCallsMe (site search)", type |-> "ddg",
        target |-> <<"site:whocallsme.com ">> \o Quoted(n)],
       [platform |-> "SpamCalls (site search)", type |-> "ddg",
        target |-> <<"site:spamcalls.net ">> \o Quoted(n)],
       [platform |-> "Truecaller (direct)", type |-> "direct",
        target |-> <<"https://www.truecaller.com/search/in/">> \o n],
       [platform |-> "Google (DDG fallback)", type |-> "ddg", target |-> Quoted(n) \o <<" Google">>] >>

NPlatforms == Len(platforms(<<>>))

\* the entry dict created once and reused: what the previous platform left
\* in it stays
NewEntryStale(p) == [entry EXCEPT !.platform = p.platform]

\* line 114
NewEntry(p) == [platform |-> p.platform, name |-> None, photo |-> None, notes |-> None]

\* line 124
ResultText(r) == r.snippet \o <<" ">> \o r.title

\* the scan without "not found" and "break": the last result with a name wins
LastNamed(list) ==
    LET hits == {j \in 1..Len(list) : extract_name_from_text(ResultText(list[j])) # None}
    IN  IF hits = {} THEN 0 ELSE CHOOSE j \in hits : \A h \in hits : j >= h

\* lines 123-134: the index of the result at which the scan stops, or 0
FirstNamed(list) ==
    LET hits == {j \in 1..Len(list) : extract_name_from_text(ResultText(list[j])) # None}
    IN  IF hits = {} THEN 0 ELSE CHOOSE j \in hits : \A h \in hits : j <= h

\* lines 135-137
Fallback(e, list) ==
    IF list # <<>> THEN [e EXCEPT !.notes = Some(list[1].href)] ELSE e

\* lines 130-133, given what fetch_meta_image_and_title returned
AfterPage(e, r, m) ==
    LET e1 == IF m.meta.image # None THEN [e EXCEPT !.photo = m.meta.image] ELSE e
    IN  [e1 EXCEPT !.notes = Some(r.href)]

\* lines 140-151
DirectEntry(e, p, m) ==
    IF m.error # None THEN [e EXCEPT !.notes = m.error]
    ELSE LET e1 == [e EXCEPT !.notes = Some(p.target)]
             n1 == IF m.meta.title # None THEN extract_name_from_text(m.meta.title[1]) ELSE None
             e2 == IF n1 # None THEN [e1 EXCEPT !.name = n1] ELSE e1
             n2 == IF e2.name = None /\ m.meta.text # <<>>
                   THEN extract_name_from_text(m.meta.text) ELSE None
             e3 == IF n2 # None THEN [e2 EXCEPT !.name = n2] ELSE e2
         IN  [e3 EXCEPT !.photo = m.meta.image]

\* lines 154-155
Caught(e, kind) == [e EXCEPT !.notes = Some(<<"error: ", ExcText(kind)>>)]

\* an except clause for the exceptions of requests only
CatchesRequestErrorsOnly(kind) == kind \in {"neterr", "httperr"}

\* line 154: "except Exception" catches whatever the processing of a
\* platform raises
Catches(kind) == TRUE

\* the scan without "break": the page of every later result with a name is
\* fetched too
ScanAfterNoBreak(list, j) ==
    LET later == {x \in (j + 1)..Len(list) : extract_name_from_text(ResultText(list[x])) # None}
    IN  IF later = {} THEN 0 ELSE CHOOSE x \in later : \A o \in later : x <= o

\* lines 133-134: after the first result that yields a name the scan stops;
\* the index of the next result whose page is fetched after result j, or 0
ScanAfter(list, j) == 0

\* the handler without the check of line 99
RejectionMissingOnly(r) ==
    IF r = <<>> THEN Some(<<"missing number parameter, e.g. /search?number=919876543210">>)
    ELSE None

\* lines 96-100: the error message of a rejected request, or None
Rejection(r) ==
    IF r = <<>> THEN Some(<<"missing number parameter, e.g. /search?number=919876543210">>)
    ELSE IF normalize_number(r) = <<>> THEN Some(<<"invalid number">>)
    ELSE None

(***************************************************************************)
(* Inputs and bounds                                                       *)
(***************************************************************************)
\* in one request at most this many platforms get, on their first fetch,
\* anything but a page without anchors, title, image and text
MaxEventful == 2

R_Ten     == <<"9","8","7","6","5","4","3","2","1","0">>
R_Dashed  == <<"9","8","-","7","6">>
R_OnlyBsD == <<"\\","D">>

\* request.args.get('number'): None when the parameter is missing
Params == {None, Some(<<>>), Some(R_OnlyBsD), Some(R_Ten), Some(R_Dashed)}

DefaultSearch == [kind |-> "ok", anchors |-> <<>>]
DefaultPage == [kind |-> "ok", page |-> BlankPage]

BlankEntry == [platform |-> "", name |-> None, photo |-> None, notes |-> None]

InitHandler ==
    /\ pc = "idle"
    /\ raw = <<>>
    /\ number = <<>>
    /\ i = 0
    /\ entry = BlankEntry
    /\ res = <<>>
    /\ k = 0
    /\ results = <<>>
    /\ status = 0
    /\ body = None
    /\ log = <<>>
    /\ hist = <<>>
    /\ served = 0

Init ==
    /\ fn = "none"
    /\ arg = <<>>
    /\ ret = None
    /\ InitHandler

(***************************************************************************)
(* GET /search                                                             *)
(***************************************************************************)
\* line 156, then the next iteration or line 158
Finish(e) ==
    /\ entry' = e
    /\ results' = Append(results, e)
    /\ IF i = NPlatforms
       THEN /\ pc' = "done"
            /\ status' = 200
            /\ body' = Some([queried |-> raw, normalized |-> number,
                             results |-> Append(results, e)])
            /\ i' = i
       ELSE /\ pc' = "fetch"
            /\ i' = i + 1
            /\ UNCHANGED <<status, body>>

\* an exception leaves the try block: lines 154-156, or out of the handler
Raise(e, kind) ==
    IF Catches(kind)
    THEN Finish(Caught(e, kind))
    ELSE /\ pc' = "done"
         /\ status' = 500
         /\ body' = None
         /\ UNCHANGED <<entry, results, i>>

\* lines 95-112
Receive(param) ==
    /\ pc = "idle"
    /\ LET r == IF param = None THEN <<>> ELSE param[1]
       IN  /\ raw' = r
           /\ IF Rejection(r) # None
              THEN /\ status' = 400
                   /\ body' = Some([error |-> Rejection(r)[1]])
                   /\ pc' = "done"
                   /\ UNCHANGED <<number, i>>
              ELSE /\ number' = normalize_number(r)
                   /\ pc' = "fetch"
                   /\ i' = 1
                   /\ UNCHANGED <<status, body>>
    /\ UNCHANGED <<entry, res, k, results, log, hist, served, fn, arg, ret>>

\* lines 114-137 up to the next outbound request or the sleep
DdgSearch(o) ==
    /\ pc = "fetch"
    /\ platforms(number)[i].type = "ddg"
    /\ o = DefaultSearch \/ served < MaxEventful
    /\ served' = IF o = DefaultSearch THEN served ELSE served + 1
    /\ LET p  == platforms(number)[i]
           e0 == NewEntry(p)
           r  == ddg_search_html(o)
           j  == FirstNamed(r.list)
       IN  /\ log' = Append(log, [ev |-> "POST", p |-> i, to |-> p.target])
           /\ hist' = Append(hist, [search |-> o, page |-> NoPage])
           /\ IF r.raised
              THEN Raise(e0, o.kind) /\ UNCHANGED <<res, k>>
              ELSE IF r.error # None
              THEN /\ entry' = [e0 EXCEPT !.notes = r.error]
                   /\ pc' = "sleep"
                   /\ UNCHANGED <<res, k, results, status, body, i>>
              ELSE IF j # 0
              THEN /\ entry' = [e0 EXCEPT !.name = extract_name_from_text(ResultText(r.list[j]))]
                   /\ res' = r.list
                   /\ k' = j
                   /\ pc' = "page"
                   /\ UNCHANGED <<results, status, body, i>>
              ELSE /\ entry' = Fallback(e0, r.list)
                   /\ res' = r.list
                   /\ pc' = "sleep"
                   /\ UNCHANGED <<k, results, status, body, i>>
    /\ UNCHANGED <<raw, number, fn, arg, ret>>

\* lines 129-134: the fetch of the page of the result that yielded the name
PageFetch(o) ==
    /\ pc = "page"
    /\ LET r == res[k]
           m == fetch_meta_image_and_title(o)
           n == ScanAfter(res, k)
       IN  /\ log' = Append(log, [ev |-> "GET", p |-> i, to |-> r.href])
           /\ hist' = [hist EXCEPT ![i].page = o]
           /\ IF m.raised
              THEN Raise(entry, o.kind) /\ UNCHANGED k
              ELSE /\ entry' = AfterPage(entry, r, m)
                   /\ IF n = 0
                      THEN pc' = "sleep" /\ UNCHANGED k
                      ELSE pc' = "page" /\ k' = n
                   /\ UNCHANGED <<results, status, body, i>>
    /\ UNCHANGED <<raw, number, res, served, fn, arg, ret>>

\* lines 138-151
DirectFetch(o) ==
    /\ pc = "fetch"
    /\ platforms(number)[i].type = "direct"
    /\ o = DefaultPage \/ served < MaxEventful
    /\ served' = IF o = DefaultPage THEN served ELSE served + 1
    /\ LET p  == platforms(number)[i]
           e0 == NewEntry(p)
           m  == fetch_meta_image_and_title(o)
       IN  /\ log' = Append(log, [ev |-> "GET", p |-> i, to |-> p.target])
           /\ hist' = Append(hist, [search |-> NoSearch, page |-> o])
           /\ IF m.raised
              THEN Raise(e0, o.kind)
              ELSE /\ entry' = DirectEntry(e0, p, m)
                   /\ pc' = "sleep"
                   /\ UNCHANGED <<results, status, body, i>>
    /\ UNCHANGED <<raw, number, res, k, fn, arg, ret>>

\* lines 153 and 156
Sleep ==
    /\ pc = "sleep"
    /\ log' = Append(log, [ev |-> "sleep", p |-> i, to |-> <<>>])
    /\ Finish(entry)
    /\ UNCHANGED <<raw, number, res, k, hist, served, fn, arg, ret>>

Next ==
    \/ \E param \in Params : Receive(param)
    \/ \E o \in SearchOutcomes : DdgSearch(o)
    \/ \E o \in PageOutcomes : PageFetch(o)
    \/ \E o \in PageOutcomes : DirectFetch(o)
    \/ Sleep

Spec == Init /\ [][Next]_vars

(***************************************************************************)
(* Calls of the two pure helpers on inputs of bounded length               *)
(***************************************************************************)
MaxRawLen == 3
MaxTextLen == 3

RECURSIVE Strings(_, _)
Strings(alphabet, n) ==
    IF n = 0 THEN {<<>>}
    ELSE LET shorter == Strings(alphabet, n - 1)
         IN  shorter \cup {Append(w, c) : w \in shorter, c \in alphabet}

R_Prefixed == CountryCode \o R_Ten
R_Spaced   == <<"9","8","7","6","5"," ","4","3","2","1","0">>

NormInputs ==
    Strings({"9", "1", "-", "\\", "D"}, MaxRawLen)
    \cup {R_Ten, R_Prefixed, R_Spaced, R_Dashed, R_OnlyBsD}

T_Contact == <<"C","o","n","t","a","c","t"," ","J","o","h","n"," ",
               "S","m","i","t","h"," ","t","o","d","a","y">>
T_Escaped == <<"J","o","h","n","\\","s","S","m","i","t","h">>

TextInputs ==
    Strings({"A", "b", "s", "\\", " "}, MaxTextLen)
    \cup {T_Contact, T_Escaped, T_JohnSmith, T_MaryJones, T_BobSingh, T_spam}

InitPure ==
    /\ \/ fn = "normalize_number" /\ arg \in NormInputs
       \/ fn = "extract_name_from_text" /\ arg \in TextInputs
    /\ ret = None
    /\ InitHandler

CallNormalize ==
    /\ fn = "normalize_number"
    /\ ret = None
    /\ ret' = Some(normalize_number(arg))
    /\ UNCHANGED <<fn, arg, handlerVars>>

CallExtract ==
    /\ fn = "extract_name_from_text"
    /\ ret = None
    /\ ret' = Some(extract_name_from_text(arg))
    /\ UNCHANGED <<fn, arg, handlerVars>>

NextPure == CallNormalize \/ CallExtract

SpecPure == InitPure /\ [][NextPure]_vars

(***************************************************************************)
(* Properties                                                              *)
(***************************************************************************)
Requests(j) == {x \in 1..Len(log) : log[x].p = j /\ log[x].ev \in {"POST", "GET"}}
Sleeps(j) == {x \in 1..Len(log) : log[x].p = j /\ log[x].ev = "sleep"}
RequestFailed(o) == o.kind \in {"neterr", "httperr"}

\* what the specification says the normalizer returns: the digits of the
\* input in their order, with the prefix when there are exactly 10
DigitsWithPrefix(r) ==
    LET d == StripNonDigits(r) IN IF Len(d) = 10 THEN CountryCode \o d ELSE d

\* C1: normalize_number(raw) is the digit characters of raw in their original
\* order, with 91 prepended exactly when 10 digits remain.
C1_ReturnsDigitsWithPrefix ==
    (fn = "normalize_number" /\ ret # None) => ret[1] = DigitsWithPrefix(arg)

\* C10: normalize_number is idempotent, its result holds digit characters
\* only and is never exactly 10 characters long.
C10_IdempotentDigitsOnly ==
    (fn = "normalize_number" /\ ret # None) =>
        /\ normalize_number(ret[1]) = ret[1]
        /\ \A x \in 1..Len(ret[1]) : ret[1][x] \in Digit
        /\ Len(ret[1]) # 10

\* C6: extract_name_from_text("Contact John Smith today") is "John Smith".
C6_ContactJohnSmith ==
    (fn = "extract_name_from_text" /\ arg = T_Contact /\ ret # None) =>
        ret[1] = Some(T_JohnSmith)

\* C2: a request whose number parameter is missing, empty or normalizes to
\* the empty string is answered 400 with a body {error: string}, and no
\* outbound request is issued for it.
C2_RejectedWithoutFetch ==
    (pc # "idle" /\ normalize_number(raw) = <<>>) =>
        /\ pc = "done"
        /\ status = 400
        /\ body # None
        /\ DOMAIN body[1] = {"error"}
        /\ body[1].error # <<>>
        /\ log = <<>>

C2_Witness == pc = "done" /\ status = 400 /\ raw = R_OnlyBsD

\* C3: a request whose normalized number is not empty is answered 200 with
\* queried = raw, normalized = normalize_number(raw) and one entry per
\* platform, in the order of the platform list, whatever the fetches did;
\* no request ends with a server error.
C3_AlwaysAllPlatforms ==
    /\ status \in {0, 200, 400}
    /\ (pc = "done" /\ normalize_number(raw) # <<>>) =>
          /\ status = 200
          /\ body # None
          /\ body[1].queried = raw
          /\ body[1].normalized = normalize_number(raw)
          /\ Len(body[1].results) = 6
          /\ \A j \in 1..6 :
                body[1].results[j].platform = platforms(number)[j].platform

C3_Witness ==
    /\ pc = "done"
    /\ status = 200
    /\ \E a, b \in 1..Len(hist) :
          /\ hist[a].search.kind = "exc"
          /\ hist[b].page.kind = "neterr"

\* the name NAME_RE finds in the text of each anchor and on each page the
\* web serves (title first, then text), tabulated
Anchors == UNION {{l[x] : x \in 1..Len(l)} : l \in SearchPages}
NameOfAnchor == [a \in Anchors |-> NAME_RE_search(a.snippet \o <<" ">> \o a.title)]
NameOfPage ==
    [pg \in Pages |->
        IF pg.title # None /\ NAME_RE_search(pg.title[1]) # None
        THEN NAME_RE_search(pg.title[1])
        ELSE NAME_RE_search(pg.text)]

\* the entry of a platform written as a function of the platform descriptor
\* and of the outcomes of that platform's own fetches
EntryOf(p, h) ==
    LET blank == [platform |-> p.platform, name |-> None, photo |-> None, notes |-> None]
        note(txt) == [blank EXCEPT !.notes = Some(txt)]
        list == SelectSeq(h.search.anchors, LAMBDA a : a.href # <<>> /\ a.title # <<>>)
        named == {j \in 1..Len(list) : NameOfAnchor[list[j]] # None}
        f == CHOOSE j \in named : \A o \in named : j <= o
    IN  IF p.type = "ddg"
        THEN CASE RequestFailed(h.search) ->
                    note(<<"duckduckgo search failed: ", ExcText(h.search.kind)>>)
               [] h.search.kind = "exc" -> note(<<"error: ", ExcText("exc")>>)
               [] h.search.kind = "ok" /\ list = <<>> -> blank
               [] h.search.kind = "ok" /\ list # <<>> /\ named = {} -> note(list[1].href)
               [] OTHER ->
                    IF h.page.kind = "exc"
                    THEN [note(<<"error: ", ExcText("exc")>>) EXCEPT !.name = NameOfAnchor[list[f]]]
                    ELSE [note(list[f].href) EXCEPT !.name = NameOfAnchor[list[f]],
                             !.photo = IF h.page.kind = "ok" THEN h.page.page.image ELSE None]
        ELSE CASE RequestFailed(h.page) -> note(<<"fetch failed: ", ExcText(h.page.kind)>>)
               [] h.page.kind = "exc" -> note(<<"error: ", ExcText("exc")>>)
               [] OTHER -> [note(p.target) EXCEPT !.name = NameOfPage[h.page.page],
                                                  !.photo = h.page.page.image]

\* C4: the entry of a platform is determined by the normalized number and
\* the outcomes of that platform's own fetches only: every entry equals
\* EntryOf of its descriptor and its own outcomes, so two runs that agree on
\* a platform's outcomes agree on its entry whatever the other platforms did.
C4_EntryFromOwnOutcomes ==
    \A j \in 1..Len(results) : results[j] = EntryOf(platforms(number)[j], hist[j])

C4_Witness ==
    /\ pc = "done"
    /\ status = 200
    /\ \E a, b \in 1..Len(results) :
          /\ a < b
          /\ RequestFailed(hist[a].search)
          /\ results[b].name # None
          /\ results[b].notes # None

\* C5: when an outbound request made for a platform fails (network failure
\* or non-success status), the page fetch after a name was found included,
\* the platform's entry carries the error message as its notes.
C5_FailureIsNoted ==
    \A j \in 1..Len(results) :
        (RequestFailed(hist[j].search) \/ RequestFailed(hist[j].page)) =>
            \E kd \in {"neterr", "httperr"} :
                \/ results[j].notes = Some(<<"duckduckgo search failed: ", ExcText(kd)>>)
                \/ results[j].notes = Some(<<"fetch failed: ", ExcText(kd)>>)

\* C7 as stated: exactly one outbound request per platform, so the requests
\* of a finished request number as many as the platforms.
C7_OneRequestPerPlatform ==
    /\ \A j \in 1..Len(results) : Cardinality(Requests(j)) = 1
    /\ (pc = "done" /\ status = 200) =>
          Cardinality({x \in 1..Len(log) : log[x].ev # "sleep"}) = NPlatforms

\* C7 amended: a search platform issues exactly one POST, followed by at most
\* one GET, which is there exactly when a result yielded a name; a direct
\* platform issues exactly one GET; the total lies between 6 and 11.
C7_OnePlusPageFetch ==
    /\ \A j \in 1..Len(hist) :
          LET p == platforms(number)[j]
              posts == {x \in Requests(j) : log[x].ev = "POST"}
              gets  == {x \in Requests(j) : log[x].ev = "GET"}
          IN  IF p.type = "ddg"
              THEN /\ Cardinality(posts) = 1
                   /\ Cardinality(gets) <= 1
                   /\ \A x \in posts : log[x].to = p.target
                   /\ \A x \in gets, y \in posts : y < x
                   /\ j <= Len(results) =>
                        (gets # {} <=> results[j].name # None)
              ELSE /\ posts = {}
                   /\ Cardinality(gets) = 1
                   /\ \A x \in gets : log[x].to = p.target
    /\ (pc = "done" /\ status = 200) =>
          LET n == Cardinality({x \in 1..Len(log) : log[x].ev # "sleep"})
          IN  /\ n >= NPlatforms
              /\ n <= 2 * NPlatforms - 1
              /\ n = NPlatforms + Cardinality({j \in 1..NPlatforms :
                        platforms(number)[j].type = "ddg" /\ results[j].name # None})

C7_Witness ==
    /\ pc = "done"
    /\ status = 200
    /\ \E j \in 1..Len(results) : Cardinality(Requests(j)) = 2

\* C8: the first request of a platform is issued only after the platform
\* before it was finished and the delay that follows it has elapsed,
\* whatever the outcome of that platform.
C8_DelayBeforeNextPlatform ==
    \A x \in 1..Len(log) :
        (log[x].ev # "sleep" /\ log[x].p > 1) =>
            /\ Len(results) >= log[x].p - 1
            /\ \E y \in Sleeps(log[x].p - 1) : y < x

FirstHit(list) ==
    LET named == {j \in 1..Len(list) : NameOfAnchor[list[j]] # None}
    IN  IF named = {} THEN 0 ELSE CHOOSE j \in named : \A o \in named : j <= o

PagesFetched(j) == {log[x].to : x \in {y \in Requests(j) : log[y].ev = "GET"}}

SearchSucceeded(j) ==
    platforms(number)[j].type = "ddg" /\ hist[j].search.kind = "ok"

\* C9 for platform j; with raisedNoted, a page whose processing raised
\* leaves the text of the exception as notes
C9_Entry(j, raisedNoted) ==
    LET list == ParseAnchors(hist[j].search.anchors)
        f == FirstHit(list)
        e == results[j]
    IN  IF f # 0
        THEN /\ e.name = NameOfAnchor[list[f]]
             /\ e.notes = IF raisedNoted /\ hist[j].page.kind = "exc"
                          THEN Some(<<"error: ", ExcText("exc")>>)
                          ELSE Some(list[f].href)
             /\ PagesFetched(j) = {list[f].href}
        ELSE /\ e.name = None
             /\ e.photo = None
             /\ PagesFetched(j) = {}
             /\ e.notes = IF list # <<>> THEN Some(list[1].href) ELSE None

\* C9 as stated: for a search platform whose search succeeded the name is
\* that of the earliest result yielding one, notes is that result's href and
\* only its page is fetched; with no name, name and photo are null and notes
\* is the first result's href, or null when there is no result.
C9_FirstMatchWins ==
    \A j \in 1..Len(results) : SearchSucceeded(j) => C9_Entry(j, FALSE)

\* C9 amended: as stated, except that when the processing of the fetched
\* page raised an exception, notes is the text "error: ..." of that
\* exception instead of the href (the name stays, the photo is null).
C9_FirstMatchWinsUnlessRaised ==
    \A j \in 1..Len(results) :
        SearchSucceeded(j) =>
            /\ C9_Entry(j, TRUE)
            /\ hist[j].page.kind = "exc" => results[j].photo = None

C9_Witness ==
    \E j \in 1..Len(results) :
        /\ SearchSucceeded(j)
        /\ FirstHit(ParseAnchors(hist[j].search.anchors)) = 2
        /\ hist[j].page.kind = "ok"
        /\ results[j].photo # None

====
